---- MODULE Spec2Model ----
(***************************************************************************)
(* Model of grafe.go, a static-site build pipeline: path utilities, the    *)
(* directory walker, the content renderer, the asset mirror, the script    *)
(* transpiler pass and the orchestrator (main).                            *)
(*                                                                         *)
(* Strings are sequences of one-character strings, so that the string      *)
(* functions of the source (Split, TrimSpace, TrimPrefix, TrimSuffix) are  *)
(* computed character by character as the Go library computes them.        *)
(***************************************************************************)
EXTENDS Integers, Sequences, FiniteSets, TLC

VARIABLES
  fs,         \* the file system below the working directory
  pc,         \* the step of main that runs next, or how the process ended
  walking,    \* TRUE while a walk of the current step is in progress
  stack,      \* the pending directory listings of the (recursive) walk
  templates,  \* the template registry: the set of layout base names
  done,       \* history: the steps of main completed so far, in order
  wrote,      \* history: the files created or truncated, per step and source
  visited,    \* history: the files handed to a walk callback, in order
  snapshot,   \* history: the file system when the current walk began
  arg,        \* path utilities: the argument
  op,         \* path utilities: the function applied
  res         \* path utilities: the result

vars == <<fs, pc, walking, stack, templates, done, wrote, visited, snapshot, arg, op, res>>

buildVars == <<fs, pc, walking, stack, templates, done, wrote, visited, snapshot>>

pathVars == <<arg, op, res>>

(***************************************************************************)
(* Bounds                                                                  *)
(***************************************************************************)
MaxPathLen == 4
MaxFiles == 3
MaxOthers == 1

(***************************************************************************)
(* String literals                                                         *)
(***************************************************************************)
Slash == "/"
Dot == "."
s_content == <<"c","o","n","t","e","n","t">>
s_contentSlash == s_content \o <<"/">>
s_public == <<"p","u","b","l","i","c">>
s_publicSlash == s_public \o <<"/">>
s_themeStatic == <<"t","h","e","m","e","/","s","t","a","t","i","c">>
s_static == <<"s","t","a","t","i","c">>
s_md == <<".","m","d">>
s_html == <<".","h","t","m","l">>
s_ts == <<".","t","s">>
s_js == <<".","j","s">>
s_nojekyll == <<".","n","o","j","e","k","y","l","l">>
s_marker == s_publicSlash \o s_nojekyll

(***************************************************************************)
(* strings package                                                         *)
(***************************************************************************)
IsSpace(c) == c = " "

RECURSIVE TrimLeft(_)
TrimLeft(s) ==
  IF s # <<>> /\ IsSpace(s[1]) THEN TrimLeft(Tail(s)) ELSE s

RECURSIVE TrimRight(_)
TrimRight(s) ==
  IF s # <<>> /\ IsSpace(s[Len(s)]) THEN TrimRight(SubSeq(s, 1, Len(s) - 1)) ELSE s

TrimSpace(s) == TrimRight(TrimLeft(s))

RECURSIVE Split(_, _)
Split(s, sep) ==
  IF \A i \in 1..Len(s) : s[i] # sep
  THEN <<s>>
  ELSE LET i == CHOOSE k \in 1..Len(s) :
                  s[k] = sep /\ \A j \in 1..(k - 1) : s[j] # sep
       IN <<SubSeq(s, 1, i - 1)>> \o Split(SubSeq(s, i + 1, Len(s)), sep)

HasPrefix(s, p) == Len(p) <= Len(s) /\ SubSeq(s, 1, Len(p)) = p

HasSuffix(s, p) == Len(p) <= Len(s) /\ SubSeq(s, Len(s) - Len(p) + 1, Len(s)) = p

TrimPrefix(s, p) == IF HasPrefix(s, p) THEN SubSeq(s, Len(p) + 1, Len(s)) ELSE s

TrimSuffix(s, p) == IF HasSuffix(s, p) THEN SubSeq(s, 1, Len(s) - Len(p)) ELSE s

(***************************************************************************)
(* Path utilities                                                          *)
(***************************************************************************)
getExtension(filePath) ==
  LET filePathParts == Split(TrimSpace(filePath), Slash)
      fileName == filePathParts[Len(filePathParts)]
      fileNameElems == Split(TrimSpace(fileName), Dot)
  IN TrimPrefix(fileName, fileNameElems[1])

removeExtension(filePath) == TrimSuffix(TrimSpace(filePath), getExtension(filePath))

addExtension(filePath, newExtension) == filePath \o newExtension

changeExtension(filePath, newExtension) ==
  addExtension(removeExtension(filePath), newExtension)

(***************************************************************************)
(* File system: a function from normalised paths (sequences of segments)   *)
(* to nodes.  The working directory is the empty path.                     *)
(***************************************************************************)
NonEmpty(x) == x # <<>>

\* Path resolution: split on '/', empty segments ("public//x") are skipped.
Norm(path) == SelectSeq(Split(path, Slash), NonEmpty)

\* filepath.Dir, as a normalised path.
Dir(path) == LET n == Norm(path) IN SubSeq(n, 1, Len(n) - 1)

NoDoc == [Draft |-> "absent", Title |-> "absent", Summary |-> "absent",
          Template |-> "absent", Params |-> "absent"]

DirNode == [kind |-> "dir", form |-> "none", id |-> <<>>, doc |-> NoDoc]

FileNode(form, id, doc) == [kind |-> "file", form |-> form, id |-> id, doc |-> doc]

EmptyFile == FileNode("empty", <<>>, NoDoc)

IsDirAt(f, p) == p = <<>> \/ (p \in DOMAIN f /\ f[p].kind = "dir")

IsFileAt(f, p) == p \in DOMAIN f /\ f[p].kind = "file"

Prefixes(p) == {SubSeq(p, 1, i) : i \in 1..Len(p)}

\* os.MkdirAll succeeds unless a component of the path is a regular file.
MkdirAllOk(f, p) == \A q \in Prefixes(p) : ~IsFileAt(f, q)

MkdirAll(f, p) ==
  [q \in DOMAIN f \cup Prefixes(p) |-> IF q \in DOMAIN f THEN f[q] ELSE DirNode]

\* os.Create succeeds when the parent is a directory and the path is not one.
CreateOk(f, p) == p # <<>> /\ IsDirAt(f, SubSeq(p, 1, Len(p) - 1)) /\ ~IsDirAt(f, p)

WriteFile(f, p, node) == [q \in DOMAIN f \cup {p} |-> IF q = p THEN node ELSE f[q]]

Remove(f, p) == [q \in DOMAIN f \ {p} |-> f[q]]

RemoveAll(f, p) == [q \in {r \in DOMAIN f : ~HasPrefix(r, p)} |-> f[q]]

\* Byte order of the characters that occur in names.
CharOrder == <<" ", ".", "/", "2", "a", "b", "c", "d", "e", "f", "g", "h", "i",
               "j", "k", "l", "m", "n", "o", "p", "q", "r", "s", "t", "u", "v",
               "w", "x", "y", "z">>

Rank(c) == CHOOSE i \in 1..Len(CharOrder) : CharOrder[i] = c

RECURSIVE NameLess(_, _)
NameLess(a, b) ==
  IF a = <<>> THEN b # <<>>
  ELSE IF b = <<>> THEN FALSE
  ELSE IF a[1] = b[1] THEN NameLess(Tail(a), Tail(b))
  ELSE Rank(a[1]) < Rank(b[1])

RECURSIVE SortNames(_)
SortNames(S) ==
  IF S = {} THEN <<>>
  ELSE LET m == CHOOSE x \in S : \A y \in S \ {x} : NameLess(x, y)
       IN <<m>> \o SortNames(S \ {m})

\* os.ReadDir: the entries of dir sorted by file name; the walker drops the
\* error, so a missing or unreadable directory lists as empty.
ReadDir(f, dir) ==
  LET d == Norm(dir)
      names == {p[Len(p)] : p \in {q \in DOMAIN f : Len(q) = Len(d) + 1 /\ HasPrefix(q, d)}}
      sorted == SortNames(names)
  IN IF ~IsDirAt(f, d) THEN <<>>
     ELSE [i \in 1..Len(sorted) |->
             [name |-> sorted[i], isDir |-> IsDirAt(f, Append(d, sorted[i]))]]

(***************************************************************************)
(* Results of the operations that may end the process: exit is "ok",       *)
(* "fatal" (log.Fatal) or "panic" (a failed type assertion); written is    *)
(* the set of paths at which the call created or truncated a file.         *)
(***************************************************************************)
Result(f, exit, written) == [fs |-> f, exit |-> exit, written |-> written]

createDirectoryPath(f, path) ==
  IF MkdirAllOk(f, Dir(path)) THEN Result(MkdirAll(f, Dir(path)), "ok", {})
  ELSE Result(f, "fatal", {})

copyFile(f, sourcePath, destinationPath) ==
  IF ~IsFileAt(f, Norm(sourcePath)) THEN Result(f, "fatal", {})
  ELSE IF ~CreateOk(f, Norm(destinationPath)) THEN Result(f, "fatal", {})
  ELSE Result(WriteFile(f, Norm(destinationPath), f[Norm(sourcePath)]), "ok",
              {Norm(destinationPath)})

\* createDirectoryPath followed by copyFile, as both callers do.
mirrorFile(f, sourcePath, destinationPath) ==
  LET r == createDirectoryPath(f, destinationPath)
  IN IF r.exit # "ok" THEN r ELSE copyFile(r.fs, sourcePath, destinationPath)

(***************************************************************************)
(* Content renderer                                                        *)
(***************************************************************************)
IsTemplateName(v) == v \notin {"absent", "num"}

\* The type assertions of the binding record and of the template name.
FieldsOk(metaData) ==
  /\ metaData.Title = "str"
  /\ metaData.Summary = "str"
  /\ metaData.Params \in {"absent", "map"}
  /\ IsTemplateName(metaData.Template)

\* Variant of generateHtmlFile that tests Draft only after the output file
\* was created.
generateHtmlFileDraftLate(f, tpls, sourceMd, outputFile, execOk) ==
  LET metaData == sourceMd.doc
      out == Norm(outputFile)
      r1 == createDirectoryPath(f, outputFile)
      f2 == WriteFile(r1.fs, out, EmptyFile)
      pageTemplateFile == addExtension(<<metaData.Template>>, s_html)
  IN IF r1.exit # "ok" THEN r1
     ELSE IF ~CreateOk(r1.fs, out) THEN Result(r1.fs, "fatal", {})
     ELSE IF metaData.Draft = "true" THEN Result(f2, "ok", {out})
     ELSE IF ~FieldsOk(metaData) THEN Result(f2, "panic", {out})
     ELSE IF pageTemplateFile \notin tpls THEN Result(f2, "fatal", {out})
     ELSE IF ~execOk
          THEN Result(WriteFile(f2, out, FileNode("partial", sourceMd.id, sourceMd.doc)),
                      "fatal", {out})
     ELSE Result(WriteFile(f2, out, FileNode("html", sourceMd.id, sourceMd.doc)),
                 "ok", {out})

\* Variant of generateHtmlFile that skips a page whose fields are absent or
\* mistyped and lets the build go on.
generateHtmlFileSkipInvalid(f, tpls, sourceMd, outputFile, execOk) ==
  LET metaData == sourceMd.doc
      out == Norm(outputFile)
      r1 == createDirectoryPath(f, outputFile)
      f2 == WriteFile(r1.fs, out, EmptyFile)
      pageTemplateFile == addExtension(<<metaData.Template>>, s_html)
  IN IF metaData.Draft = "true" THEN Result(f, "ok", {})
     ELSE IF r1.exit # "ok" THEN r1
     ELSE IF ~CreateOk(r1.fs, out) THEN Result(r1.fs, "fatal", {})
     ELSE IF ~FieldsOk(metaData) THEN Result(f2, "ok", {out})
     ELSE IF pageTemplateFile \notin tpls THEN Result(f2, "fatal", {out})
     ELSE IF ~execOk
          THEN Result(WriteFile(f2, out, FileNode("partial", sourceMd.id, sourceMd.doc)),
                      "fatal", {out})
     ELSE Result(WriteFile(f2, out, FileNode("html", sourceMd.id, sourceMd.doc)),
                 "ok", {out})

generateHtmlFile(f, tpls, sourceMd, outputFile, execOk) ==
  LET metaData == sourceMd.doc
      out == Norm(outputFile)
      r1 == createDirectoryPath(f, outputFile)
      f2 == WriteFile(r1.fs, out, EmptyFile)
      pageTemplateFile == addExtension(<<metaData.Template>>, s_html)
  IN IF metaData.Draft = "true" THEN Result(f, "ok", {})
     ELSE IF r1.exit # "ok" THEN r1
     ELSE IF ~CreateOk(r1.fs, out) THEN Result(r1.fs, "fatal", {})
     ELSE IF ~FieldsOk(metaData) THEN Result(f2, "panic", {out})
     ELSE IF pageTemplateFile \notin tpls THEN Result(f2, "fatal", {out})
     ELSE IF ~execOk
          THEN Result(WriteFile(f2, out, FileNode("partial", sourceMd.id, sourceMd.doc)),
                      "fatal", {out})
     ELSE Result(WriteFile(f2, out, FileNode("html", sourceMd.id, sourceMd.doc)),
                 "ok", {out})

\* The transpiler engine: a deterministic function of the source text.
TranspileString(node) == FileNode("js", node.id, node.doc)

transpileTypescriptFile(f, tsFilePath, jsOutputPath, transpileOk) ==
  IF ~IsFileAt(f, Norm(tsFilePath)) THEN Result(f, "fatal", {})
  ELSE IF ~transpileOk THEN Result(f, "fatal", {})
  ELSE IF ~CreateOk(f, Norm(jsOutputPath)) THEN Result(f, "fatal", {})
  ELSE Result(WriteFile(f, Norm(jsOutputPath), TranspileString(f[Norm(tsFilePath)])),
              "ok", {Norm(jsOutputPath)})

(***************************************************************************)
(* The per-file callbacks of the three walks                               *)
(***************************************************************************)
\* Variant of htmlOutputPath that keeps only the base name of the file.
htmlOutputPathFlat(fileName) ==
  LET parts == Split(changeExtension(fileName, s_html), Slash)
  IN s_publicSlash \o parts[Len(parts)]

\* Output path of a content file that is rendered.
htmlOutputPath(fileName) ==
  s_publicSlash \o TrimPrefix(changeExtension(fileName, s_html), s_contentSlash)

convertContentFile(f, tpls, fileName, execOk) ==
  IF getExtension(fileName) = s_md
  THEN IF ~IsFileAt(f, Norm(fileName)) THEN Result(f, "fatal", {})
       ELSE generateHtmlFile(f, tpls, f[Norm(fileName)], htmlOutputPath(fileName), execOk)
  ELSE LET newFileName == TrimPrefix(fileName, s_contentSlash)
       IN mirrorFile(f, fileName, s_publicSlash \o newFileName)

copyStaticFile(f, directoryToCopy, fileName) ==
  LET newFileName == TrimPrefix(fileName, directoryToCopy)
  IN mirrorFile(f, fileName, s_publicSlash \o newFileName)

transpileFile(f, fileName, transpileOk) ==
  LET newFileName == changeExtension(fileName, s_js)
      r1 == createDirectoryPath(f, s_publicSlash \o newFileName)
      r2 == transpileTypescriptFile(r1.fs, fileName, newFileName, transpileOk)
  IN IF getExtension(fileName) # s_ts THEN Result(f, "ok", {})
     ELSE IF r1.exit # "ok" THEN r1
     ELSE IF r2.exit # "ok" THEN r2
     ELSE Result(Remove(r2.fs, Norm(fileName)), "ok", r2.written)

(***************************************************************************)
(* Template registry                                                       *)
(***************************************************************************)
\* filepath.Base of the layouts under theme/templates/layouts.
LayoutFiles == {<<"d">> \o s_html}

generateTemplates(parseOk) == IF parseOk THEN LayoutFiles ELSE {}

(***************************************************************************)
(* Orchestrator: the order of the steps of main                            *)
(***************************************************************************)
\* Variant of MainOrder that clears the output root before loading templates.
MainOrderClearFirst ==
  <<"RemoveAll", "generateTemplates", "convertContentDirectory", "copyThemeStatic",
    "copyStatic", "transpileTypescript", "createMarker", "startHTTPServer">>

\* Variant of MainOrder that mirrors the project's static tree before the
\* theme's.
MainOrderStaticFirst ==
  <<"generateTemplates", "RemoveAll", "convertContentDirectory", "copyStatic",
    "copyThemeStatic", "transpileTypescript", "createMarker", "startHTTPServer">>

MainOrder ==
  <<"generateTemplates", "RemoveAll", "convertContentDirectory", "copyThemeStatic",
    "copyStatic", "transpileTypescript", "createMarker", "startHTTPServer">>

StageAfter(step) ==
  LET i == CHOOSE k \in 1..Len(MainOrder) : MainOrder[k] = step
  IN IF i = Len(MainOrder) THEN "serving" ELSE MainOrder[i + 1]

WalkStages == {"convertContentDirectory", "copyThemeStatic", "copyStatic",
               "transpileTypescript"}

Failed == {"fatal", "panic"}

\* The root directory each walking step passes to walk.
WalkRoot(step) ==
  CASE step = "convertContentDirectory" -> s_content
    [] step = "copyThemeStatic" -> s_themeStatic
    [] step = "copyStatic" -> s_static
    [] step = "transpileTypescript" -> s_public

(***************************************************************************)
(* Tree walker: stack holds one frame per directory being listed, the      *)
(* innermost last; a frame keeps the entries of its listing not yet        *)
(* visited.                                                                *)
(***************************************************************************)
Frame(f, dir) == [dir |-> dir, items |-> ReadDir(f, dir)]

RECURSIVE Advance(_)
Advance(st) ==
  IF st # <<>> /\ st[Len(st)].items = <<>>
  THEN Advance(SubSeq(st, 1, Len(st) - 1))
  ELSE st

PopItem(st) == [st EXCEPT ![Len(st)].items = Tail(@)]

TopDir == stack[Len(stack)].dir

TopItem == Head(stack[Len(stack)].items)

\* dir + "/" + item.Name()
ItemPath == TopDir \o <<Slash>> \o TopItem.name

AtFile(steps) ==
  /\ pc \in steps
  /\ walking
  /\ stack # <<>>
  /\ ~TopItem.isDir

\* The effect of one callback invocation with result r on file fileName.
Visit(r, fileName) ==
  /\ fs' = r.fs
  /\ pc' = IF r.exit = "ok" THEN pc ELSE r.exit
  /\ stack' = IF r.exit = "ok" THEN Advance(PopItem(stack)) ELSE PopItem(stack)
  /\ wrote' = wrote \cup {[stage |-> pc, path |-> p, src |-> fileName] : p \in r.written}
  /\ visited' = Append(visited, [stage |-> pc, file |-> fileName])
  /\ UNCHANGED <<walking, templates, done, snapshot, pathVars>>

(***************************************************************************)
(* Actions                                                                 *)
(***************************************************************************)
\* main, lines 224-249: load the templates and construct the converter.
LoadTemplates ==
  /\ pc = "generateTemplates"
  /\ \E parseOk \in BOOLEAN :
       /\ templates' = generateTemplates(parseOk)
       /\ pc' = IF parseOk THEN StageAfter(pc) ELSE "panic"
       /\ done' = IF parseOk THEN Append(done, pc) ELSE done
  /\ UNCHANGED <<fs, walking, stack, wrote, visited, snapshot, pathVars>>

\* main, lines 251-252: os.RemoveAll("public").
ClearOutput ==
  /\ pc = "RemoveAll"
  /\ fs' = RemoveAll(fs, Norm(s_public))
  /\ pc' = StageAfter(pc)
  /\ done' = Append(done, pc)
  /\ UNCHANGED <<walking, stack, templates, wrote, visited, snapshot, pathVars>>

\* walk(root, ...): the listing of the root directory.
BeginWalk ==
  /\ pc \in WalkStages
  /\ ~walking
  /\ walking' = TRUE
  /\ stack' = Advance(<<Frame(fs, WalkRoot(pc))>>)
  /\ snapshot' = fs
  /\ UNCHANGED <<fs, pc, templates, done, wrote, visited, pathVars>>

\* walk, line 43: the recursive call on a subdirectory.
EnterDirectory ==
  /\ pc \in WalkStages
  /\ walking
  /\ stack # <<>>
  /\ TopItem.isDir
  /\ stack' = Advance(Append(PopItem(stack), Frame(fs, ItemPath)))
  /\ UNCHANGED <<fs, pc, walking, templates, done, wrote, visited, snapshot, pathVars>>

\* convertContentDirectory: the callback on one file under content.
ConvertContent ==
  /\ AtFile({"convertContentDirectory"})
  /\ \E execOk \in BOOLEAN :
       Visit(convertContentFile(fs, templates, ItemPath, execOk), ItemPath)

\* copyStaticDirectory: the callback on one file of the mirrored directory.
CopyStatic ==
  /\ AtFile({"copyThemeStatic", "copyStatic"})
  /\ Visit(copyStaticFile(fs, WalkRoot(pc), ItemPath), ItemPath)

\* transpileTypescript: the callback on one file under public.
Transpile ==
  /\ AtFile({"transpileTypescript"})
  /\ \E transpileOk \in BOOLEAN :
       Visit(transpileFile(fs, ItemPath, transpileOk), ItemPath)

\* The walk returned: main goes on to its next step.
FinishWalk ==
  /\ pc \in WalkStages
  /\ walking
  /\ stack = <<>>
  /\ walking' = FALSE
  /\ pc' = StageAfter(pc)
  /\ done' = Append(done, pc)
  /\ UNCHANGED <<fs, stack, templates, wrote, visited, snapshot, pathVars>>

\* main, lines 262-263: os.Create("public/.nojekyll").
CreateMarker ==
  /\ pc = "createMarker"
  /\ IF CreateOk(fs, Norm(s_marker))
     THEN /\ fs' = WriteFile(fs, Norm(s_marker), EmptyFile)
          /\ pc' = StageAfter(pc)
          /\ done' = Append(done, pc)
     ELSE /\ pc' = "fatal"
          /\ UNCHANGED <<fs, done>>
  /\ UNCHANGED <<walking, stack, templates, wrote, visited, snapshot, pathVars>>

\* startHTTPServer: ListenAndServe blocks while serving, or fails to bind.
StartServer ==
  /\ pc = "startHTTPServer"
  /\ \E bindOk \in BOOLEAN :
       /\ pc' = IF bindOk THEN StageAfter(pc) ELSE "fatal"
       /\ done' = IF bindOk THEN Append(done, pc) ELSE done
  /\ UNCHANGED <<fs, walking, stack, templates, wrote, visited, snapshot, pathVars>>

Next ==
  \/ LoadTemplates
  \/ ClearOutput
  \/ BeginWalk
  \/ EnterDirectory
  \/ ConvertContent
  \/ CopyStatic
  \/ Transpile
  \/ FinishWalk
  \/ CreateMarker
  \/ StartServer

(***************************************************************************)
(* Path utilities applied to arbitrary short strings                       *)
(***************************************************************************)
PathChars == {"a", "b", ".", "/", " "}

PathStrings == UNION {[1..n -> PathChars] : n \in 0..MaxPathLen}

NewExtensions == {s_html, s_js}

CallGetExtension ==
  /\ op = "none"
  /\ op' = "getExtension"
  /\ res' = getExtension(arg)
  /\ UNCHANGED <<arg, buildVars>>

CallRemoveExtension ==
  /\ op = "none"
  /\ op' = "removeExtension"
  /\ res' = removeExtension(arg)
  /\ UNCHANGED <<arg, buildVars>>

CallChangeExtension ==
  /\ op = "none"
  /\ op' = "changeExtension"
  /\ \E e \in NewExtensions : res' = changeExtension(arg, e)
  /\ UNCHANGED <<arg, buildVars>>

NextPath ==
  \/ CallGetExtension
  \/ CallRemoveExtension
  \/ CallChangeExtension

(***************************************************************************)
(* Input trees                                                             *)
(***************************************************************************)
n_a_md == <<"a", ".", "m", "d">>
n_a_html == <<"a", ".", "h", "t", "m", "l">>
n_p_v2_md == <<"p", ".", "v", "2", ".", "m", "d">>
n_a_md_sp == <<"a", ".", "m", "d", " ">>
n_d_a_md == <<"d", "/", "a", ".", "m", "d">>
n_x_ts == <<"x", ".", "t", "s">>
n_x_ts_sp == <<"x", ".", "t", "s", " ">>
n_x_js == <<"x", ".", "j", "s">>
n_s_css == <<"s", ".", "c", "s", "s">>
n_a_b_ts == <<"a", ".", "b", ".", "t", "s">>
n_d_t_ts == <<"d", "/", "t", ".", "t", "s">>
n_old == <<"o", "l", "d">>

ContentNames == {n_a_md, n_a_md_sp, n_a_html, n_p_v2_md, n_d_a_md, n_x_ts}

StaticNames == {n_s_css, n_x_ts, n_x_ts_sp, n_x_js, n_a_b_ts, s_nojekyll, n_d_t_ts}

\* The source files an input may hold, as path strings.
SourcePath(root, rel) == root \o <<Slash>> \o rel

ContentSlots == {SourcePath(s_content, n) : n \in ContentNames}

ThemeSlots == {SourcePath(s_themeStatic, n) : n \in StaticNames}

StaticSlots == {SourcePath(s_static, n) : n \in StaticNames}

Slots == ContentSlots \cup ThemeSlots \cup StaticSlots

\* The files whose text starts with front matter: the markdown sources.
MarkdownSlots == {p \in ContentSlots : HasSuffix(TrimSpace(p), s_md)}

Doc(draft, title, summary, template, params) ==
  [Draft |-> draft, Title |-> title, Summary |-> summary,
   Template |-> template, Params |-> params]

ValidDoc == Doc("absent", "str", "str", "d", "absent")

DraftDoc == Doc("true", "str", "str", "d", "absent")

NoTemplateDoc == Doc("absent", "str", "str", "absent", "absent")

BuildDocs == {ValidDoc, DraftDoc, NoTemplateDoc}

AllDocs ==
  {Doc(dr, ti, su, te, pa) :
     dr \in {"absent", "true", "false", "str"},
     ti \in {"absent", "str", "num"},
     su \in {"absent", "str", "num"},
     te \in {"absent", "num", "d", "n"},
     pa \in {"absent", "map", "num"}}

\* A stale file left under public by an earlier build.
StalePath == SourcePath(s_public, n_old)

\* The tree that holds the files S, the markdown ones with the front matter
\* docs gives them, and the directories above them.
MakeFS(S, docs) ==
  LET files == {Norm(p) : p \in S \cup {StalePath}}
      dirs == UNION {Prefixes(SubSeq(q, 1, Len(q) - 1)) : q \in files}
      docOf(q) == IF \E p \in DOMAIN docs : Norm(p) = q
                  THEN docs[CHOOSE p \in DOMAIN docs : Norm(p) = q]
                  ELSE NoDoc
  IN [q \in files \cup dirs |->
        IF q \in files THEN FileNode("src", q, docOf(q)) ELSE DirNode]

InitBuild ==
  /\ pc = MainOrder[1]
  /\ walking = FALSE
  /\ stack = <<>>
  /\ templates = {}
  /\ done = <<>>
  /\ wrote = {}
  /\ visited = <<>>
  /\ snapshot = fs
  /\ arg = <<>>
  /\ op = "none"
  /\ res = <<>>

\* Any input of at most MaxFiles source files.
Init ==
  /\ \E S \in {T \in SUBSET Slots : Cardinality(T) <= MaxFiles} :
       \E docs \in [S \cap MarkdownSlots -> BuildDocs] :
         fs = MakeFS(S, docs)
  /\ InitBuild

\* One markdown source with any front matter, beside at most MaxOthers other
\* content files and one file in each static tree.
InitRender ==
  /\ \E md \in MarkdownSlots, doc \in AllDocs :
       \E S \in {T \in SUBSET (ContentSlots \ {md}) : Cardinality(T) <= MaxOthers} :
         fs = MakeFS(S \cup {md, SourcePath(s_themeStatic, n_s_css),
                             SourcePath(s_static, n_x_ts)},
                     [p \in (S \cup {md}) \cap MarkdownSlots |->
                        IF p = md THEN doc ELSE ValidDoc])
  /\ InitBuild

InitPath ==
  /\ arg \in PathStrings
  /\ op = "none"
  /\ res = <<>>
  /\ fs = MakeFS({}, <<>>)
  /\ pc = "path"
  /\ walking = FALSE
  /\ stack = <<>>
  /\ templates = {}
  /\ done = <<>>
  /\ wrote = {}
  /\ visited = <<>>
  /\ snapshot = fs

Spec == Init /\ [][Next]_vars

SpecRender == InitRender /\ [][Next]_vars

SpecPath == InitPath /\ [][NextPath]_vars

(***************************************************************************)
(* Vocabulary of the properties                                            *)
(***************************************************************************)
PublicRoot == <<s_public>>

ContentRoot == <<s_content>>

FilesUnder(f, root) == {p \in DOMAIN f : IsFileAt(f, p) /\ HasPrefix(p, root)}

NodesUnder(f, root) == {p \in DOMAIN f : HasPrefix(p, root)}

\* The extension in the sense of the specification: the part of the final
\* '/'-separated segment from its last '.', empty when it has none.
SpecExtension(path) ==
  LET parts == Split(path, Slash)
      seg == parts[Len(parts)]
      dots == {i \in 1..Len(seg) : seg[i] = Dot}
  IN IF dots = {} THEN <<>>
     ELSE SubSeq(seg, CHOOSE i \in dots : \A j \in dots : j <= i, Len(seg))

\* The name with its extension (in the sense above) replaced.
SpecChangeExtension(name, newExtension) ==
  SubSeq(name, 1, Len(name) - Len(SpecExtension(name))) \o newExtension

\* The sibling of the normalised path p whose name has the new extension.
SpecSibling(p, newExtension) ==
  SubSeq(p, 1, Len(p) - 1) \o <<SpecChangeExtension(p[Len(p)], newExtension)>>

\* Front matter that renders: not a draft, fields well typed, template known.
Publishable(doc) ==
  /\ doc.Draft # "true"
  /\ FieldsOk(doc)
  /\ addExtension(<<doc.Template>>, s_html) \in LayoutFiles

ContentDone == pc = "copyThemeStatic" /\ ~walking

TranspileDone == pc = "createMarker"

(***************************************************************************)
(* C1: after convertContentDirectory every file under content/ whose       *)
(* extension (from the last dot) is ".md" and whose front matter is valid  *)
(* and not a draft has exactly one output file, the rendered page at       *)
(* public/ + its relative path with ".md" replaced by ".html", and is not  *)
(* copied to public/ itself; so also for names such as "p.v2.md".          *)
(***************************************************************************)
C1_OnePagePerMarkdownFile ==
  ContentDone =>
    \A c \in FilesUnder(fs, ContentRoot) :
      (SpecExtension(c[Len(c)]) = s_md /\ Publishable(fs[c].doc)) =>
        LET out == PublicRoot \o SpecSibling(Tail(c), s_html)
        IN /\ IsFileAt(fs, out)
           /\ fs[out].form = "html"
           /\ fs[out].id = c
           /\ \A q \in FilesUnder(fs, PublicRoot) : fs[q].id = c => q = out

(***************************************************************************)
(* C5: after transpileTypescript every file that was under public/ before  *)
(* the pass with extension ".ts" (from the last dot, so "a.b.ts" counts)   *)
(* is gone, the file with the extension changed to ".js" holds the         *)
(* transpiler's output for it, and no ".ts" file remains under public/.    *)
(***************************************************************************)
C5_ScriptsReplaced ==
  TranspileDone =>
    /\ \A p \in FilesUnder(snapshot, PublicRoot) :
         SpecExtension(p[Len(p)]) = s_ts =>
           /\ ~IsFileAt(fs, p)
           /\ IsFileAt(fs, SpecSibling(p, s_js))
           /\ fs[SpecSibling(p, s_js)] = TranspileString(snapshot[p])
    /\ \A p \in FilesUnder(fs, PublicRoot) : SpecExtension(p[Len(p)]) # s_ts

(***************************************************************************)
(* C6: getExtension(p) is the part of p's final '/'-separated segment from *)
(* its last '.', and empty when that segment has no '.'.                   *)
(***************************************************************************)
C6_ExtensionFromLastDot ==
  op = "getExtension" => res = SpecExtension(arg)

(***************************************************************************)
(* C7: a call of generateHtmlFile that fails because a required field is   *)
(* absent or mistyped, Params has the wrong shape or the template is not   *)
(* in the registry leaves no file and no new directory behind.             *)
(***************************************************************************)
RenderFails ==
  /\ AtFile({"convertContentDirectory"})
  /\ getExtension(ItemPath) = s_md
  /\ fs[Norm(ItemPath)].doc.Draft # "true"
  /\ ~Publishable(fs[Norm(ItemPath)].doc)

C7_NothingCreatedOnFailure ==
  [][RenderFails => fs' = fs]_vars

(***************************************************************************)
(* C10: the transpiler pass changes the tree under public/ only by         *)
(* removing each ".ts" file and adding its ".js" counterpart beside it; no *)
(* other file or directory (such as public/public/...) is created, removed *)
(* or modified.                                                            *)
(***************************************************************************)
C10_TranspileFrame ==
  TranspileDone =>
    LET before == NodesUnder(snapshot, PublicRoot)
        scripts == {p \in FilesUnder(snapshot, PublicRoot) : SpecExtension(p[Len(p)]) = s_ts}
        compiled == {SpecSibling(p, s_js) : p \in scripts}
    IN /\ NodesUnder(fs, PublicRoot) = (before \ scripts) \cup compiled
       /\ \A p \in before \ (scripts \cup compiled) : fs[p] = snapshot[p]

(***************************************************************************)
(* More vocabulary                                                         *)
(***************************************************************************)
\* The path string of a normalised path.
RECURSIVE Join(_)
Join(p) ==
  IF p = <<>> THEN <<>>
  ELSE IF Len(p) = 1 THEN p[1]
  ELSE p[1] \o <<Slash>> \o Join(Tail(p))

\* The content files that the content step hands to generateHtmlFile.
Rendered(f) == {c \in FilesUnder(f, ContentRoot) : getExtension(Join(c)) = s_md}

LastVisited == visited[Len(visited)]

(***************************************************************************)
(* C2: for every content file handed to generateHtmlFile whose Draft field *)
(* is the boolean true, the call returns without error and creates no file *)
(* and no directory, and no file under public/ originates from that        *)
(* content file, whatever its other fields are.                            *)
(***************************************************************************)
DraftCall ==
  /\ AtFile({"convertContentDirectory"})
  /\ getExtension(ItemPath) = s_md
  /\ fs[Norm(ItemPath)].doc.Draft = "true"

NoOutputFromDrafts ==
  \A c \in Rendered(fs) :
    fs[c].doc.Draft = "true" =>
      /\ \A q \in FilesUnder(fs, PublicRoot) : fs[q].id # c
      /\ \A w \in wrote : Norm(w.src) # c

InvalidRequired(doc) ==
  \/ doc.Title # "str"
  \/ doc.Summary # "str"
  \/ ~IsTemplateName(doc.Template)

InvalidPage(v) ==
  /\ v.stage = "convertContentDirectory"
  /\ getExtension(v.file) = s_md
  /\ fs[Norm(v.file)].doc.Draft # "true"
  /\ InvalidRequired(fs[Norm(v.file)].doc)

ThemeRoot == <<<<"t", "h", "e", "m", "e">>, s_static>>

StaticRoot == <<s_static>>

\* The relative paths held by both static trees.
SharedStatic ==
  {Tail(p) : p \in {q \in FilesUnder(fs, StaticRoot) : IsFileAt(fs, ThemeRoot \o Tail(q))}}

C4_ProjectStaticWinsAlways ==
  pc = "serving" =>
    \A r \in SharedStatic :
      /\ IsFileAt(fs, PublicRoot \o r)
      /\ fs[PublicRoot \o r] = fs[StaticRoot \o r]

(***************************************************************************)
(* C4 as amended: the same, for every such r that is not itself a script   *)
(* source (getExtension ".ts"), is not the marker .nojekyll, and is not    *)
(* the compiled path of a script source that is under public/ when the     *)
(* transpiler pass begins.                                                 *)
(***************************************************************************)
IsScript(p) == getExtension(Join(p)) = s_ts

CompiledPath(p) == Norm(changeExtension(Join(p), s_js))

KeptByLaterSteps(r) ==
  /\ ~IsScript(PublicRoot \o r)
  /\ PublicRoot \o r # Norm(s_marker)
  /\ \A q \in FilesUnder(snapshot, PublicRoot) :
       IsScript(q) => CompiledPath(q) # PublicRoot \o r

C4_ProjectStaticWins ==
  pc = "serving" =>
    \A r \in SharedStatic :
      KeptByLaterSteps(r) =>
        /\ IsFileAt(fs, PublicRoot \o r)
        /\ fs[PublicRoot \o r] = fs[StaticRoot \o r]

C4_Witness ==
  /\ pc = "serving"
  /\ \E r \in SharedStatic :
       /\ KeptByLaterSteps(r)
       /\ fs[PublicRoot \o r].id = StaticRoot \o r

(***************************************************************************)
(* C8 as stated: within one step each output path is written at most once  *)
(* (no two files under content/ are written to the same path), and the     *)
(* transpiler pass writes no ".js" file over a file that exists already.   *)
(***************************************************************************)
C8_OneWritePerPath ==
  /\ \A w1, w2 \in wrote :
       (w1.stage = w2.stage /\ w1.path = w2.path) => w1.src = w2.src
  /\ \A w \in wrote :
       w.stage = "transpileTypescript" => ~IsFileAt(snapshot, w.path)

(***************************************************************************)
(* C8 as amended: within one step every file is visited once and writes at *)
(* most one path; two files are written to the same path in one step only  *)
(* in the content step or the transpiler pass, and only when they are the  *)
(* same path once the extension is removed (content/a.md and               *)
(* content/a.html both go to public/a.html).                               *)
(***************************************************************************)
C8_WritesCollideOnlyOnStem ==
  /\ \A w1, w2 \in wrote :
       (w1.stage = w2.stage /\ w1.path = w2.path /\ w1.src # w2.src) =>
         /\ w1.stage \in {"convertContentDirectory", "transpileTypescript"}
         /\ removeExtension(w1.src) = removeExtension(w2.src)
  /\ \A w1, w2 \in wrote :
       (w1.stage = w2.stage /\ w1.src = w2.src) => w1.path = w2.path
  /\ \A i, j \in 1..Len(visited) : visited[i] = visited[j] => i = j

C8_Witness ==
  \E w1, w2 \in wrote :
    /\ w1.stage = "convertContentDirectory"
    /\ w2.stage = "convertContentDirectory"
    /\ w1.path = w2.path
    /\ getExtension(w1.src) = s_md
    /\ getExtension(w2.src) = s_html

(***************************************************************************)
(* C9 as stated: the steps of main complete in the order (1) deletion of   *)
(* public/, (2) template loading, (3) content, (4) theme/static, (5)       *)
(* static, (6) transpiler pass, (7) marker, (8) server, each after the     *)
(* previous one succeeded, and the server runs only once the marker        *)
(* exists.                                                                 *)
(***************************************************************************)
IsPrefixOf(a, b) == Len(a) <= Len(b) /\ SubSeq(b, 1, Len(a)) = a

StepsInOrder(order) ==
  /\ IsPrefixOf(done, order)
  /\ pc \in Failed => ~ENABLED Next
  /\ pc = "serving" => (done = order /\ IsFileAt(fs, Norm(s_marker)))

C9_DeleteThenLoad ==
  StepsInOrder(<<"RemoveAll", "generateTemplates", "convertContentDirectory",
                 "copyThemeStatic", "copyStatic", "transpileTypescript",
                 "createMarker", "startHTTPServer">>)

(***************************************************************************)
(* C9 as amended: the same with the first two steps exchanged: templates   *)
(* are loaded first and public/ is deleted second.                         *)
(***************************************************************************)
C9_LoadThenDelete ==
  StepsInOrder(<<"generateTemplates", "RemoveAll", "convertContentDirectory",
                 "copyThemeStatic", "copyStatic", "transpileTypescript",
                 "createMarker", "startHTTPServer">>)

C9_Witness ==
  /\ pc = "serving"
  /\ Len(done) = 8

====
